---- MODULE Spec2Model ----
(***************************************************************************)
(* Admission control and caching engine of CRMB-M1.                        *)
(*                                                                         *)
(*   - the token-bucket RateLimiter of crmb-streaming-webapp               *)
(*     (services/rate_limiter.rs), its API and its acquire_permit          *)
(*   - the MemoryCache / CacheService of crmb-streaming-webapp             *)
(*     (services/cache.rs), its calls to the redis tier, and the task      *)
(*     spawned by start_cleanup_task                                       *)
(*   - the fixed-window MemoryRateLimitStore and find_matching_config of   *)
(*     crmb-streaming-webapp (middleware/rate_limit.rs)                    *)
(*   - the sliding-window RateLimiter of crmb-streaming                    *)
(*     (services/rate_limiter.rs) and its per-client middleware            *)
(*     (middleware/rate_limit.rs)                                          *)
(*                                                                         *)
(* Time is a discrete clock `now` (Instant::now()); a Duration is a number *)
(* of clock ticks, or a rational number of ticks where the code divides.   *)
(* f64 arithmetic is modelled by exact rational arithmetic.                *)
(***************************************************************************)
EXTENDS Integers, Sequences, FiniteSets, TLC

VARIABLES
    now,             \* the monotonic clock read by Instant::now()
    overflow_checks, \* build profile: TRUE = u32 overflow panics, FALSE = it wraps
    rate_limiter,    \* RateLimiter { buckets }
    last,            \* the last RateLimiter API call and what it returned
    hist,            \* history of the bucket since it was created or reset
    pc,              \* acquire_permit callers: where each task is
    lock,            \* holder of the RwLock write guard around the limiter (0 = free)
    wake_at,         \* acquire_permit callers: when sleep(delay) ends
    consumed,        \* tokens decremented on behalf of acquire_permit callers
    refilled,        \* whether a refill changed the token count since Init
    memory_cache,    \* CacheService.memory_cache: the MemoryCache behind the RwLock
    cache_last,      \* the last cache call and what it returned
    cache_hung,      \* a cache call never returned: it holds the write lock for good
    cache_ops,       \* number of cache calls made so far
    cache_hist,      \* what the cache calls returned so far, and the keys by last use
    cache_config,    \* CacheService.config: enable_redis and default_ttl
    redis_written,   \* payloads handed to set_in_redis and not deleted or flushed since
    handles,         \* CacheService values alive (the service and its clones)
    cleanup_task,    \* the task spawned by start_cleanup_task: where it is
    windows,         \* MemoryRateLimitStore.windows: key -> RateLimitWindow
    store_config,    \* the RateLimitConfig the middleware passes to check_rate_limit
    store_last,      \* the last MemoryRateLimitStore call and what it returned
    store_hist,      \* per key: the calls and the Allowed results of its current window
    configs,         \* RateLimitState.configs: path pattern -> RateLimitConfig
    iter_order,      \* the order in which configs.iter() visits the patterns
    lookup,          \* the last find_matching_config call and what it returned
    sliding,         \* the sliding-window RateLimiter of crmb-streaming
    acquire_pc,      \* the acquire call in progress on it, if any
    returned,        \* the times at which acquire calls returned, oldest first
    limits,          \* RATE_LIMIT_MAP of the crmb-streaming middleware
    in_flight,       \* requests that read the clock and wait for the lock of the map
    responses        \* what the middleware answered: the last answer, the admissions

limiterVars == <<rate_limiter, last, hist>>
acquireVars == <<pc, lock, wake_at, consumed, refilled>>
serviceVars == <<cache_config, handles, cleanup_task>>
cacheVars == <<memory_cache, cache_last, cache_hung, cache_ops, cache_hist, redis_written,
               serviceVars>>
storeVars == <<windows, store_config, store_last, store_hist>>
matchVars == <<configs, iter_order, lookup>>
slidingVars == <<sliding, acquire_pc, returned>>
clientVars == <<limits, in_flight, responses>>
extraVars == <<storeVars, matchVars, slidingVars, clientVars>>
vars == <<now, overflow_checks, rate_limiter, last, hist, pc, lock, wake_at, consumed, refilled,
          memory_cache, cache_last, cache_hung, cache_ops, cache_hist, cache_config, redis_written,
          handles, cleanup_task, extraVars>>

----------------------------------------------------------------------------
(* Bounds of the model *)

MaxTime == 3
MaxCapacity == 2
MaxWindow == 2
MaxMinInterval == 1
NumCallers == 3
\* width of the u32 token counter, scaled down from 32 bits
U32Bits == 3

U32_MODULUS == 2 ^ U32Bits
U32_MAX == U32_MODULUS - 1

Min(a, b) == IF a < b THEN a ELSE b

Callers == 1 .. NumCallers

\* the service given a bucket by add_service, and one that has none
ConfiguredService == "tmdb"
ServiceNames == {"tmdb", "mdblist"}

----------------------------------------------------------------------------
(* Durations and Option *)

\* a Duration of num/den clock ticks
Duration(num, den) == [num |-> num, den |-> den]

None == << >>
Some(x) == << x >>

\* RateLimitConfig over the configurations AppConfig::validate lets through:
\* max_requests > 0 and time_window > 0
RateLimitConfigs ==
    [max_requests : 1 .. MaxCapacity,
     time_window  : 1 .. MaxWindow,
     min_interval : {None} \cup {Some(d) : d \in 1 .. MaxMinInterval}]

----------------------------------------------------------------------------
(* RateLimitResult, and Panicked for a call that unwinds *)

Allowed == [kind |-> "Allowed", duration |-> Duration(0, 1)]
Delayed(delay) == [kind |-> "Delayed", duration |-> Duration(delay, 1)]
Denied(retry_after) == [kind |-> "Denied", duration |-> retry_after]
Panicked == [kind |-> "Panicked", duration |-> Duration(0, 1)]
NoResult == [kind |-> "None", duration |-> Duration(0, 1)]

----------------------------------------------------------------------------
(* TokenBucket *)

\* mutant of TokenBucket::new: the bucket starts empty
TokenBucket_new_Empty(config, t) ==
    [capacity     |-> config.max_requests,
     tokens       |-> 0,
     refill_rate  |-> [num |-> config.max_requests, den |-> config.time_window],
     last_refill  |-> t,
     min_interval |-> IF config.min_interval = None THEN 0 ELSE config.min_interval[1],
     last_request |-> None]

\* TokenBucket::new: a full bucket, refill_rate = capacity / time_window
TokenBucket_new(config, t) ==
    [capacity     |-> config.max_requests,
     tokens       |-> config.max_requests,
     refill_rate  |-> [num |-> config.max_requests, den |-> config.time_window],
     last_refill  |-> t,
     min_interval |-> IF config.min_interval = None THEN 0 ELSE config.min_interval[1],
     last_request |-> None]

\* `x as u32` of a non-negative f64: the cast saturates at u32::MAX
F64_as_u32(x) == IF x > U32_MAX THEN U32_MAX ELSE x

\* the u32 addition `self.tokens + tokens_to_add` of a build without overflow checks
WrappingAdd(a, b) == (a + b) % U32_MODULUS

\* TokenBucket::refill at time t. The addition overflows u32 when the sum
\* exceeds u32::MAX: a build with overflow checks panics there (the bucket is
\* left as it was), a build without them wraps.
TokenBucket_refill(b, t) ==
    LET elapsed == t - b.last_refill
        tokens_to_add == F64_as_u32((elapsed * b.refill_rate.num) \div b.refill_rate.den)
    IN  IF elapsed > 0
        THEN IF b.tokens + tokens_to_add > U32_MAX /\ overflow_checks
             THEN [bucket |-> b, panicked |-> TRUE]
             ELSE [bucket |-> [b EXCEPT !.tokens = Min(WrappingAdd(b.tokens, tokens_to_add), b.capacity),
                                        !.last_refill = t],
                   panicked |-> FALSE]
        ELSE [bucket |-> b, panicked |-> FALSE]

\* TokenBucket::check_request at time t
TokenBucket_check_request(b, t) ==
    LET r == TokenBucket_refill(b, t)
        nb == r.bucket
    IN  IF r.panicked
        THEN [bucket |-> nb, result |-> Panicked]
        ELSE IF nb.last_request # None /\ t - nb.last_request[1] < nb.min_interval
             THEN [bucket |-> nb,
                   result |-> Delayed(nb.min_interval - (t - nb.last_request[1]))]
             ELSE IF nb.tokens > 0
                  THEN [bucket |-> nb, result |-> Allowed]
                  ELSE [bucket |-> nb,
                        result |-> Denied(Duration(nb.refill_rate.den, nb.refill_rate.num))]

\* mutant of TokenBucket::consume_token: last_request is not set
TokenBucket_consume_token_KeepsTime(b, t) ==
    IF b.tokens > 0
    THEN [b EXCEPT !.tokens = b.tokens - 1]
    ELSE b

\* TokenBucket::consume_token at time t
TokenBucket_consume_token(b, t) ==
    IF b.tokens > 0
    THEN [b EXCEPT !.tokens = b.tokens - 1, !.last_request = Some(t)]
    ELSE b

\* TokenBucket::reset at time t
TokenBucket_reset(b, t) ==
    [b EXCEPT !.tokens = b.capacity, !.last_refill = t, !.last_request = None]

----------------------------------------------------------------------------
(* RateLimiter: the registry of buckets *)

RateLimiter_new == [buckets |-> << >>]

Configured(rl, service_name) == service_name \in DOMAIN rl.buckets

\* RateLimiter::add_service
RateLimiter_add_service(rl, service_name, config, t) ==
    [rl EXCEPT !.buckets =
        [s \in DOMAIN rl.buckets \cup {service_name} |->
            IF s = service_name THEN TokenBucket_new(config, t) ELSE rl.buckets[s]]]

\* mutant of RateLimiter::check_rate_limit: a service without a bucket is denied
RateLimiter_check_rate_limit_DeniesUnknown(rl, service_name, t) ==
    IF Configured(rl, service_name)
    THEN LET c == TokenBucket_check_request(rl.buckets[service_name], t)
         IN  [limiter |-> [rl EXCEPT !.buckets[service_name] = c.bucket],
              result  |-> c.result]
    ELSE [limiter |-> rl, result |-> Denied(Duration(1, 1))]

\* RateLimiter::check_rate_limit
RateLimiter_check_rate_limit(rl, service_name, t) ==
    IF Configured(rl, service_name)
    THEN LET c == TokenBucket_check_request(rl.buckets[service_name], t)
         IN  [limiter |-> [rl EXCEPT !.buckets[service_name] = c.bucket],
              result  |-> c.result]
    ELSE [limiter |-> rl, result |-> Allowed]

\* RateLimiter::consume_token
RateLimiter_consume_token(rl, service_name, t) ==
    IF Configured(rl, service_name)
    THEN [rl EXCEPT !.buckets[service_name] =
                        TokenBucket_consume_token(rl.buckets[service_name], t)]
    ELSE rl

\* RateLimiter::get_token_count
RateLimiter_get_token_count(rl, service_name, t) ==
    IF Configured(rl, service_name)
    THEN LET r == TokenBucket_refill(rl.buckets[service_name], t)
         IN  [limiter |-> [rl EXCEPT !.buckets[service_name] = r.bucket],
              panicked |-> r.panicked,
              value |-> Some(r.bucket.tokens)]
    ELSE [limiter |-> rl, panicked |-> FALSE, value |-> None]

\* RateLimiter::time_until_available
RateLimiter_time_until_available(rl, service_name, t) ==
    IF Configured(rl, service_name)
    THEN LET r == TokenBucket_refill(rl.buckets[service_name], t)
         IN  [limiter |-> [rl EXCEPT !.buckets[service_name] = r.bucket],
              panicked |-> r.panicked,
              value |-> IF r.bucket.tokens > 0
                        THEN None
                        ELSE Some(Duration(r.bucket.refill_rate.den, r.bucket.refill_rate.num))]
    ELSE [limiter |-> rl, panicked |-> FALSE, value |-> None]

\* one RateLimitStatus of RateLimiter::get_status
RateLimitStatus(name, bucket) ==
    [service_name     |-> name,
     tokens_available |-> bucket.tokens,
     capacity         |-> bucket.capacity,
     refill_rate      |-> bucket.refill_rate,
     time_until_refill |->
        IF bucket.tokens < bucket.capacity
        THEN Some(Duration((bucket.capacity - bucket.tokens) * bucket.refill_rate.den,
                           bucket.refill_rate.num))
        ELSE None]

\* RateLimiter::get_status: refills every bucket, then reports it
RateLimiter_get_status(rl, t) ==
    LET r == [s \in DOMAIN rl.buckets |-> TokenBucket_refill(rl.buckets[s], t)]
    IN  IF \E s \in DOMAIN r : r[s].panicked
        THEN [limiter |-> rl, panicked |-> TRUE, value |-> None]
        ELSE [limiter |-> [rl EXCEPT !.buckets = [s \in DOMAIN r |-> r[s].bucket]],
              panicked |-> FALSE,
              value |-> Some([s \in DOMAIN r |-> RateLimitStatus(s, r[s].bucket)])]

\* RateLimiter::reset_all
RateLimiter_reset_all(rl, t) ==
    [rl EXCEPT !.buckets = [s \in DOMAIN rl.buckets |-> TokenBucket_reset(rl.buckets[s], t)]]

\* RateLimiter::acquire_permit up to its first suspension: "Ok", "Err",
\* "Sleep" (the Delayed arm reached sleep(delay).await) or "Panic"
RateLimiter_acquire_permit(rl, service_name, t) ==
    LET c == RateLimiter_check_rate_limit(rl, service_name, t)
    IN  CASE c.result.kind = "Allowed" ->
                [limiter |-> RateLimiter_consume_token(c.limiter, service_name, t),
                 outcome |-> "Ok", delay |-> 0]
          [] c.result.kind = "Delayed" ->
                [limiter |-> c.limiter, outcome |-> "Sleep", delay |-> c.result.duration.num]
          [] c.result.kind = "Denied" ->
                [limiter |-> c.limiter, outcome |-> "Err", delay |-> 0]
          [] OTHER ->
                [limiter |-> c.limiter, outcome |-> "Panic", delay |-> 0]

\* RateLimiter::acquire_permit after sleep(delay).await: consume_token, Ok(())
RateLimiter_acquire_permit_resume(rl, service_name, t) ==
    RateLimiter_consume_token(rl, service_name, t)

----------------------------------------------------------------------------
(* Cached values and their serialization (serde_json) *)

MaxEntries == 2
MaxCacheOps == 4
MaxCacheTime == 2
MaxHandles == 2

Keys == {"a", "b", "c"}

\* the time to live given to set, in clock ticks
Ttls == {1}

\* config.default_ttl, in clock ticks
DefaultTtl == 1

\* the values cached: a JSON number or a JSON string of one letter
JsonValues == {[ty |-> "num", v |-> 1], [ty |-> "str", v |-> 1]}

\* the types a lookup asks for: serde_json::Value takes any JSON text, u32
\* only a number
TargetTypes == {"json", "num"}

\* serde_json::to_vec: a number is its digit, a string its letter in quotes
to_vec(value) ==
    IF value.ty = "num" THEN << 48 + value.v >> ELSE << 34, 97 + value.v, 34 >>

\* serde_json::from_slice::<T>: parses the bytes, then fits them to T
from_slice(data, T) ==
    LET parsed ==
            IF Len(data) = 1 /\ data[1] \in 48 .. 57
            THEN Some([ty |-> "num", v |-> data[1] - 48])
            ELSE IF Len(data) = 3 /\ data[1] = 34 /\ data[3] = 34
                 THEN Some([ty |-> "str", v |-> data[2] - 97])
                 ELSE None
    IN  IF parsed # None /\ (T = "json" \/ parsed[1].ty = T) THEN parsed ELSE None

----------------------------------------------------------------------------
(* CacheEntry and MemoryCache *)

Max(a, b) == IF a > b THEN a ELSE b

\* u64::saturating_sub
saturating_sub(a, b) == Max(a - b, 0)

\* CacheStats::default()
CacheStats_default ==
    [hits |-> 0, misses |-> 0, evictions |-> 0, entries |-> 0, memory_usage |-> 0]

\* MemoryCache::new
MemoryCache_new(max_entries) ==
    [entries |-> << >>, access_order |-> << >>, max_entries |-> max_entries,
     stats |-> CacheStats_default]

\* CacheEntry::is_expired at time t
CacheEntry_is_expired(entry, t) == (t - entry.created_at) > entry.ttl

\* HashMap::remove
MapRemove(m, key) == [k \in DOMAIN m \ {key} |-> m[k]]

\* HashMap::insert
MapInsert(m, key, value) == [k \in DOMAIN m \cup {key} |-> IF k = key THEN value ELSE m[k]]

\* Vec::retain(|k| k != key)
Retain(order, key) == SelectSeq(order, LAMBDA k : k # key)

Len_entries(c) == Cardinality(DOMAIN c.entries)

\* mutant of MemoryCache::get: a hit leaves the LRU order as it was
MemoryCache_get_NoRefresh(c, key, t) ==
    IF key \in DOMAIN c.entries
    THEN IF CacheEntry_is_expired(c.entries[key], t)
         THEN [cache |-> [c EXCEPT !.entries = MapRemove(c.entries, key),
                                   !.access_order = Retain(c.access_order, key),
                                   !.stats.misses = c.stats.misses + 1],
               entry |-> None]
         ELSE LET e == [c.entries[key] EXCEPT !.last_accessed = t,
                                              !.access_count = c.entries[key].access_count + 1]
              IN  [cache |-> [c EXCEPT !.entries[key] = e,
                                       !.stats.hits = c.stats.hits + 1],
                   entry |-> Some(e)]
    ELSE [cache |-> [c EXCEPT !.stats.misses = c.stats.misses + 1], entry |-> None]

\* MemoryCache::get at time t: [cache, entry]
MemoryCache_get(c, key, t) ==
    IF key \in DOMAIN c.entries
    THEN IF CacheEntry_is_expired(c.entries[key], t)
         THEN [cache |-> [c EXCEPT !.entries = MapRemove(c.entries, key),
                                   !.access_order = Retain(c.access_order, key),
                                   !.stats.misses = c.stats.misses + 1],
               entry |-> None]
         ELSE LET e == [c.entries[key] EXCEPT !.last_accessed = t,
                                              !.access_count = c.entries[key].access_count + 1]
              IN  [cache |-> [c EXCEPT !.entries[key] = e,
                                       !.access_order = Append(Retain(c.access_order, key), key),
                                       !.stats.hits = c.stats.hits + 1],
                   entry |-> Some(e)]
    ELSE [cache |-> [c EXCEPT !.stats.misses = c.stats.misses + 1], entry |-> None]

\* mutant of MemoryCache::evict_lru: the evicted key stays in the LRU list
MemoryCache_evict_lru_KeepsOrder(c) ==
    IF c.access_order # << >> /\ Head(c.access_order) \in DOMAIN c.entries
    THEN LET lru_key == Head(c.access_order)
         IN  [c EXCEPT !.entries = MapRemove(c.entries, lru_key),
                       !.stats.evictions = c.stats.evictions + 1,
                       !.stats.memory_usage =
                            saturating_sub(c.stats.memory_usage, c.entries[lru_key].size)]
    ELSE c

\* MemoryCache::evict_lru
MemoryCache_evict_lru(c) ==
    IF c.access_order # << >> /\ Head(c.access_order) \in DOMAIN c.entries
    THEN LET lru_key == Head(c.access_order)
         IN  [c EXCEPT !.entries = MapRemove(c.entries, lru_key),
                       !.access_order = Tail(c.access_order),
                       !.stats.evictions = c.stats.evictions + 1,
                       !.stats.memory_usage =
                            saturating_sub(c.stats.memory_usage, c.entries[lru_key].size)]
    ELSE c

\* the loop `while self.entries.len() >= self.max_entries { self.evict_lru() }`:
\* it never ends when evict_lru finds nothing to evict
RECURSIVE EvictWhileFull(_)
EvictWhileFull(c) ==
    IF Len_entries(c) >= c.max_entries
    THEN IF MemoryCache_evict_lru(c) = c
         THEN [cache |-> c, diverges |-> TRUE]
         ELSE EvictWhileFull(MemoryCache_evict_lru(c))
    ELSE [cache |-> c, diverges |-> FALSE]

\* mutant of MemoryCache::set: the eviction loop is left out
MemoryCache_set_NoEviction(c, key, data, ttl, t) ==
    LET size == Len(data)
        entry == [data |-> data, created_at |-> t, ttl |-> ttl, last_accessed |-> t,
                  access_count |-> 0, size |-> size, tier |-> "Memory"]
        c1 == IF key \in DOMAIN c.entries
              THEN [c EXCEPT !.access_order = Retain(c.access_order, key)]
              ELSE c
        entries == MapInsert(c1.entries, key, entry)
    IN  [cache |-> [c1 EXCEPT !.entries = entries,
                              !.access_order = Append(c1.access_order, key),
                              !.stats.entries = Cardinality(DOMAIN entries),
                              !.stats.memory_usage = c1.stats.memory_usage + size],
         diverges |-> FALSE]

\* MemoryCache::set at time t: [cache, diverges]
MemoryCache_set(c, key, data, ttl, t) ==
    LET size == Len(data)
        entry == [data |-> data, created_at |-> t, ttl |-> ttl, last_accessed |-> t,
                  access_count |-> 0, size |-> size, tier |-> "Memory"]
        c1 == IF key \in DOMAIN c.entries
              THEN [c EXCEPT !.access_order = Retain(c.access_order, key)]
              ELSE c
        ev == EvictWhileFull(c1)
        c2 == ev.cache
        entries == MapInsert(c2.entries, key, entry)
    IN  IF ev.diverges
        THEN [cache |-> c2, diverges |-> TRUE]
        ELSE [cache |-> [c2 EXCEPT !.entries = entries,
                                   !.access_order = Append(c2.access_order, key),
                                   !.stats.entries = Cardinality(DOMAIN entries),
                                   !.stats.memory_usage = c2.stats.memory_usage + size],
              diverges |-> FALSE]

\* mutant of MemoryCache::remove: the whole LRU order is dropped with the key
MemoryCache_remove_DropsOrder(c, key) ==
    IF key \in DOMAIN c.entries
    THEN [cache |-> [c EXCEPT !.entries = MapRemove(c.entries, key),
                              !.access_order = << >>,
                              !.stats.entries = Len_entries(c) - 1,
                              !.stats.memory_usage =
                                   saturating_sub(c.stats.memory_usage, c.entries[key].size)],
          removed |-> TRUE]
    ELSE [cache |-> c, removed |-> FALSE]

\* MemoryCache::remove: [cache, removed]
MemoryCache_remove(c, key) ==
    IF key \in DOMAIN c.entries
    THEN [cache |-> [c EXCEPT !.entries = MapRemove(c.entries, key),
                              !.access_order = Retain(c.access_order, key),
                              !.stats.entries = Len_entries(c) - 1,
                              !.stats.memory_usage =
                                   saturating_sub(c.stats.memory_usage, c.entries[key].size)],
          removed |-> TRUE]
    ELSE [cache |-> c, removed |-> FALSE]

\* MemoryCache::clear
MemoryCache_clear(c) ==
    [c EXCEPT !.entries = << >>, !.access_order = << >>, !.stats = CacheStats_default]

RECURSIVE RemoveEach(_, _)
RemoveEach(c, keys) ==
    IF keys = {} THEN c
    ELSE LET key == CHOOSE k \in keys : TRUE
         IN  RemoveEach(MemoryCache_remove(c, key).cache, keys \ {key})

\* MemoryCache::cleanup_expired at time t
MemoryCache_cleanup_expired(c, t) ==
    LET expired_keys == {k \in DOMAIN c.entries : CacheEntry_is_expired(c.entries[k], t)}
        c1 == RemoveEach(c, expired_keys)
    IN  [c1 EXCEPT !.stats.entries = Len_entries(c1)]

----------------------------------------------------------------------------
(* CacheService: the memory tier and the calls to the redis tier, which are  *)
(* made when config.enable_redis is set (redis_client is always None)       *)

\* CacheConfig::default(), with default_ttl in clock ticks
CacheConfig_default == [enable_redis |-> FALSE, default_ttl |-> DefaultTtl]

\* nothing was looked up yet and nothing is stored
NoCacheHistory == [hits |-> 0, misses |-> 0, recency |-> << >>, found |-> FALSE]

\* the stored keys ordered by their last successful get or set, oldest first:
\* recency keeps the keys that are still stored, and key goes last when this
\* call read or wrote it
Recency(recency, stored, key, touched) ==
    LET kept == SelectSeq(recency, LAMBDA k : k \in stored /\ ~(touched /\ k = key))
    IN  IF touched /\ key \in stored THEN Append(kept, key) ELSE kept

Hit(value, tier) == [kind |-> "Hit", value |-> Some(value), tier |-> tier]
Miss == [kind |-> "Miss", value |-> None, tier |-> ""]

\* CacheService::get_from_redis: not implemented, it finds nothing
get_from_redis(key) == None

\* CacheService::remove_from_redis: not implemented, it removes nothing
remove_from_redis(key) == FALSE

\* CacheService::get after the memory tier gave no value: the redis tier is
\* asked when it is enabled, and what it finds is promoted to the memory tier
CacheService_get_redis(c, key, T, t) ==
    LET data == IF cache_config.enable_redis THEN get_from_redis(key) ELSE None
        value == IF data # None THEN from_slice(data[1], T) ELSE None
    IN  IF value # None
        THEN [cache |-> MemoryCache_set(c, key, data[1], cache_config.default_ttl, t).cache,
              result |-> Hit(value[1], "Redis")]
        ELSE [cache |-> c, result |-> Miss]

\* mutant of CacheService::get: an entry that fails to deserialize is kept
CacheService_get_KeepsCorrupted(c, key, T, t) ==
    LET g == MemoryCache_get(c, key, t)
    IN  IF g.entry # None
        THEN LET value == from_slice(g.entry[1].data, T)
             IN  IF value # None
                 THEN [cache |-> g.cache, result |-> Hit(value[1], "Memory")]
                 ELSE CacheService_get_redis(g.cache, key, T, t)
        ELSE CacheService_get_redis(g.cache, key, T, t)

\* CacheService::get::<T> at time t: [cache, result]
CacheService_get(c, key, T, t) ==
    LET g == MemoryCache_get(c, key, t)
    IN  IF g.entry # None
        THEN LET value == from_slice(g.entry[1].data, T)
             IN  IF value # None
                 THEN [cache |-> g.cache, result |-> Hit(value[1], "Memory")]
                 ELSE CacheService_get_redis(MemoryCache_remove(g.cache, key).cache, key, T, t)
        ELSE CacheService_get_redis(g.cache, key, T, t)

\* CacheService::set at time t: [cache, diverges]; returns Ok(()) when it returns
CacheService_set(c, key, value, ttl, t) ==
    MemoryCache_set(c, key, to_vec(value), ttl, t)

\* CacheService::remove: [cache, removed]
CacheService_remove(c, key) ==
    LET memory == MemoryCache_remove(c, key)
        redis_removed == IF cache_config.enable_redis THEN remove_from_redis(key) ELSE FALSE
    IN  [cache |-> memory.cache, removed |-> memory.removed \/ redis_removed]

\* CacheService::clear
CacheService_clear(c) == MemoryCache_clear(c)

\* CacheService::get_stats: the stats with hit_rate = hits / (hits + misses)
CacheService_get_stats(c) ==
    LET total_requests == c.stats.hits + c.stats.misses
    IN  [hits |-> c.stats.hits, misses |-> c.stats.misses,
         evictions |-> c.stats.evictions, entries |-> c.stats.entries,
         memory_usage |-> c.stats.memory_usage,
         hit_rate |-> IF total_requests > 0
                      THEN [num |-> c.stats.hits, den |-> total_requests]
                      ELSE [num |-> 0, den |-> 1]]

----------------------------------------------------------------------------
(* The fixed-window store of the rate-limit middleware                       *)
(* (crmb-streaming-webapp, middleware/rate_limit.rs)                        *)

MaxLimit == 2

\* the keys generate_rate_limit_key gives two clients
StoreKeys == {"ip:1", "ip:2"}

\* the RateLimitConfig values the store is called with: requests_per_window
\* is any u32, zero included; window_duration_secs is at least one tick
StoreConfigs ==
    [requests_per_window : 0 .. MaxLimit, window_duration_secs : 1 .. MaxWindow]

StoreAllowed(remaining, reset_time) ==
    [kind |-> "Allowed", remaining |-> remaining, reset_time |-> reset_time]
StoreLimited(retry_after) ==
    [kind |-> "Limited", remaining |-> 0, reset_time |-> retry_after]

\* RateLimitWindow::new at time t
RateLimitWindow_new(window_duration, t) ==
    [count |-> 0, window_start |-> t, window_duration |-> window_duration, last_request |-> t]

\* RateLimitWindow::is_expired at time t
RateLimitWindow_is_expired(w, t) == t - w.window_start >= w.window_duration

\* RateLimitWindow::reset at time t
RateLimitWindow_reset(w, t) ==
    [w EXCEPT !.count = 0, !.window_start = t, !.last_request = t]

\* RateLimitWindow::increment at time t
RateLimitWindow_increment(w, t) ==
    LET w1 == IF RateLimitWindow_is_expired(w, t) THEN RateLimitWindow_reset(w, t) ELSE w
    IN  [w1 EXCEPT !.last_request = t, !.count = w1.count + 1]

\* RateLimitWindow::can_proceed at time t
RateLimitWindow_can_proceed(w, limit, t) ==
    IF RateLimitWindow_is_expired(w, t) THEN TRUE ELSE w.count < limit

\* RateLimitWindow::remaining at time t
RateLimitWindow_remaining(w, limit, t) ==
    IF RateLimitWindow_is_expired(w, t) THEN limit ELSE saturating_sub(limit, w.count)

\* RateLimitWindow::reset_time at time t
RateLimitWindow_reset_time(w, t) ==
    IF RateLimitWindow_is_expired(w, t)
    THEN 0
    ELSE w.window_duration - (t - w.window_start)

\* MemoryRateLimitStore::check_rate_limit at time t, under the write lock of
\* windows from its first line to its last: [windows, result]
MemoryRateLimitStore_check_rate_limit(ws, key, config, t) ==
    LET window_duration == config.window_duration_secs
        window == IF key \in DOMAIN ws
                  THEN ws[key]
                  ELSE RateLimitWindow_new(window_duration, t)
    IN  IF RateLimitWindow_can_proceed(window, config.requests_per_window, t)
        THEN LET w == RateLimitWindow_increment(window, t)
             IN  [windows |-> MapInsert(ws, key, w),
                  result  |-> StoreAllowed(
                                 RateLimitWindow_remaining(w, config.requests_per_window, t),
                                 RateLimitWindow_reset_time(w, t))]
        ELSE [windows |-> MapInsert(ws, key, window),
              result  |-> StoreLimited(RateLimitWindow_reset_time(window, t))]

\* MemoryRateLimitStore::cleanup_expired at time t
MemoryRateLimitStore_cleanup_expired(ws, t) ==
    [k \in {j \in DOMAIN ws : ~RateLimitWindow_is_expired(ws[j], t)} |-> ws[k]]

\* MemoryRateLimitStore::new, not called yet
NoStore ==
    /\ windows = << >>
    /\ store_last = [op |-> "new", key |-> "", at |-> 0, result |-> StoreLimited(0)]
    /\ store_hist = [k \in StoreKeys |-> [calls |-> 0, allowed |-> 0]]

----------------------------------------------------------------------------
(* find_matching_config of the rate-limit middleware                         *)
(* (crmb-streaming-webapp, middleware/rate_limit.rs)                        *)

MaxPattern == 2
MaxPath == 3
MaxConfigs == 2

\* the characters of request paths and of configured patterns
PathChars == {"a", "b"}

\* the strings of lo .. hi characters
Strings(lo, hi) == UNION {[1 .. n -> PathChars] : n \in lo .. hi}

\* str::starts_with
starts_with(s, pattern) ==
    Len(pattern) <= Len(s) /\ SubSeq(s, 1, Len(pattern)) = pattern

\* find_matching_config: the exact match, or else the first pattern that
\* configs.iter() visits and that the path starts with. order is the order in
\* which the HashMap is iterated.
find_matching_config(cfgs, order, path) ==
    IF path \in DOMAIN cfgs
    THEN Some(cfgs[path])
    ELSE LET matching == SelectSeq(order, LAMBDA pattern : starts_with(path, pattern))
         IN  IF matching # << >> THEN Some(cfgs[Head(matching)]) ELSE None

\* the orders in which a HashMap with these keys can be iterated
IterationOrders(keys) ==
    {order \in [1 .. Cardinality(keys) -> keys] :
        \A i, j \in 1 .. Cardinality(keys) : i # j => order[i] # order[j]}

\* find_matching_config is not used
NoMatch ==
    /\ configs = << >>
    /\ iter_order = << >>
    /\ lookup = [called |-> FALSE, path |-> << >>, result |-> None]

----------------------------------------------------------------------------
(* The sliding-window RateLimiter of crmb-streaming                          *)
(* (crmb-streaming, services/rate_limiter.rs)                               *)

\* RateLimiter::new
SlidingRateLimiter_new(max_requests, window_duration) ==
    [max_requests |-> max_requests, window_duration |-> window_duration,
     requests |-> << >>]

\* the requests left after `while let Some(&front) = self.requests.front()`
\* popped those older than window_duration at time t
RECURSIVE PopOld(_, _, _)
PopOld(requests, window_duration, t) ==
    IF requests # << >> /\ t - Head(requests) > window_duration
    THEN PopOld(Tail(requests), window_duration, t)
    ELSE requests

\* RateLimiter::acquire at time t up to sleep(wait_time).await: the old
\* requests are popped and the wait computed; wait_time = 0 means no sleep
SlidingRateLimiter_acquire(rl, t) ==
    LET requests == PopOld(rl.requests, rl.window_duration, t)
    IN  [limiter |-> [rl EXCEPT !.requests = requests],
         wait_time |-> IF Len(requests) >= rl.max_requests /\ requests # << >>
                       THEN rl.window_duration - (t - Head(requests))
                       ELSE 0]

\* RateLimiter::acquire from push_back on: the time t0 read when the call
\* began is recorded, then old requests are popped at the time t it is now
SlidingRateLimiter_acquire_resume(rl, t0, t) ==
    [rl EXCEPT !.requests = PopOld(Append(rl.requests, t0), rl.window_duration, t)]

\* no acquire call is in progress
AcquireIdle == [state |-> "idle", t0 |-> 0, wake_at |-> 0]

\* the sliding-window limiter is not used
NoSliding ==
    /\ sliding = SlidingRateLimiter_new(1, 1)
    /\ acquire_pc = AcquireIdle
    /\ returned = << >>

----------------------------------------------------------------------------
(* The per-client middleware of crmb-streaming                               *)
(* (crmb-streaming, middleware/rate_limit.rs)                               *)

\* the constants of the middleware, with the minute scaled to two clock ticks
MAX_REQUESTS_PER_MINUTE == 2
CLEANUP_INTERVAL == 2
\* Duration::from_secs(60), the age at which a request no longer counts
RequestWindow == 2
\* Duration::from_secs(300), the age of last_cleanup at which the map drops a client
MapPruneAge == 5
\* the number of clients above which the map is pruned (1000 in the code)
MapPruneSize == 1

MaxClientTime == 6
MaxInFlight == 2
\* the most clock ticks a request waits for the lock of the map
MaxLockWait == 1

\* the values of the x-forwarded-for header, "unknown" when there is none
ClientIps == {"10.0.0.1", "unknown"}

\* Instant::duration_since, which saturates at zero
duration_since(t, earlier) == Max(t - earlier, 0)

\* Vec::retain(|&req_time| now.duration_since(req_time) < Duration::from_secs(60))
RetainRecent(requests, t) ==
    SelectSeq(requests, LAMBDA req_time : duration_since(t, req_time) < RequestWindow)

\* rate_limit_middleware from the lock of the map to its release, for the
\* client client_ip and the time t the request read before it asked for the
\* lock: [limits, status]
rate_limit_middleware(ls, client_ip, t) ==
    LET entry == IF client_ip \in DOMAIN ls
                 THEN ls[client_ip]
                 ELSE [requests |-> << >>, last_cleanup |-> t]
        cleaned == IF duration_since(t, entry.last_cleanup) > CLEANUP_INTERVAL
                   THEN [requests |-> RetainRecent(entry.requests, t), last_cleanup |-> t]
                   ELSE entry
        client_limit == [cleaned EXCEPT !.requests = RetainRecent(cleaned.requests, t)]
        recorded == MapInsert(ls, client_ip,
                              [client_limit EXCEPT !.requests = Append(@, t)])
    IN  IF Len(client_limit.requests) >= MAX_REQUESTS_PER_MINUTE
        THEN [limits |-> MapInsert(ls, client_ip, client_limit), status |-> 429]
        ELSE [limits |-> IF Cardinality(DOMAIN recorded) > MapPruneSize
                         THEN [c \in {d \in DOMAIN recorded :
                                        duration_since(t, recorded[d].last_cleanup)
                                            < MapPruneAge}
                                 |-> recorded[c]]
                         ELSE recorded,
              status |-> 200]

NoAnswer == [client |-> "", status |-> 0, at |-> 0]

\* RATE_LIMIT_MAP as get_or_init makes it, and no request yet
NoClients ==
    /\ limits = << >>
    /\ in_flight = [i \in 1 .. MaxInFlight |-> None]
    /\ responses = [answer |-> NoAnswer,
                    admitted |-> [c \in ClientIps |-> << >>],
                    overtaken |-> FALSE]

\* the parts of the system that a specification leaves unused
NoExtras ==
    /\ NoStore
    /\ store_config = [requests_per_window |-> 1, window_duration_secs |-> 1]
    /\ NoMatch
    /\ NoSliding
    /\ NoClients

----------------------------------------------------------------------------
(* The RateLimiter API, called one call at a time (each call holds &mut self) *)

Bucket == rate_limiter.buckets[ConfiguredService]

Call(op, service_name, result, value) ==
    [op |-> op, service |-> service_name, at |-> now, result |-> result, value |-> value]

\* history of the configured bucket: when it was last full by construction
\* (new or reset), the consume_token calls since (counted up to capacity),
\* and the first Denied since the last consume_token or reset
FreshHistory(t) == [fresh_at |-> t, consumes |-> 0, denied_at |-> None]

\* the clock advances
Tick ==
    /\ now < MaxTime
    /\ now' = now + 1
    /\ UNCHANGED <<extraVars, overflow_checks, limiterVars, acquireVars, cacheVars>>

CheckRateLimit(service_name) ==
    LET c == RateLimiter_check_rate_limit(rate_limiter, service_name, now)
    IN  /\ rate_limiter' = c.limiter
        /\ last' = Call("check_rate_limit", service_name, c.result, None)
        /\ hist' = IF Configured(rate_limiter, service_name)
                      /\ c.result.kind = "Denied" /\ hist.denied_at = None
                   THEN [hist EXCEPT !.denied_at = Some(now)]
                   ELSE hist
        /\ UNCHANGED <<extraVars, now, overflow_checks, acquireVars, cacheVars>>

ConsumeToken(service_name) ==
    /\ rate_limiter' = RateLimiter_consume_token(rate_limiter, service_name, now)
    /\ last' = Call("consume_token", service_name, NoResult, None)
    /\ hist' = IF Configured(rate_limiter, service_name)
               THEN [hist EXCEPT !.consumes = Min(hist.consumes + 1, Bucket.capacity),
                                 !.denied_at = None]
               ELSE hist
    /\ UNCHANGED <<extraVars, now, overflow_checks, acquireVars, cacheVars>>

GetTokenCount(service_name) ==
    LET c == RateLimiter_get_token_count(rate_limiter, service_name, now)
    IN  /\ rate_limiter' = c.limiter
        /\ last' = Call("get_token_count", service_name,
                        IF c.panicked THEN Panicked ELSE NoResult, c.value)
        /\ UNCHANGED <<extraVars, now, overflow_checks, hist, acquireVars, cacheVars>>

TimeUntilAvailable(service_name) ==
    LET c == RateLimiter_time_until_available(rate_limiter, service_name, now)
    IN  /\ rate_limiter' = c.limiter
        /\ last' = Call("time_until_available", service_name,
                        IF c.panicked THEN Panicked ELSE NoResult, c.value)
        /\ UNCHANGED <<extraVars, now, overflow_checks, hist, acquireVars, cacheVars>>

GetStatus ==
    LET c == RateLimiter_get_status(rate_limiter, now)
    IN  /\ rate_limiter' = c.limiter
        /\ last' = Call("get_status", "", IF c.panicked THEN Panicked ELSE NoResult, c.value)
        /\ UNCHANGED <<extraVars, now, overflow_checks, hist, acquireVars, cacheVars>>

ResetAll ==
    /\ rate_limiter' = RateLimiter_reset_all(rate_limiter, now)
    /\ last' = Call("reset_all", "", NoResult, None)
    /\ hist' = FreshHistory(now)
    /\ UNCHANGED <<extraVars, now, overflow_checks, acquireVars, cacheVars>>

\* acquire_permit for a service that has no bucket, as
\* MdbListService::make_request calls it: no await is reached, the call
\* returns at once
AcquirePermit(service_name) ==
    /\ ~Configured(rate_limiter, service_name)
    /\ LET a == RateLimiter_acquire_permit(rate_limiter, service_name, now)
       IN  /\ rate_limiter' = a.limiter
           /\ last' = Call("acquire_permit", service_name, NoResult, Some(a.outcome))
    /\ UNCHANGED <<extraVars, now, overflow_checks, hist, acquireVars, cacheVars>>

\* no acquire_permit caller runs
NoCallers ==
    /\ pc = [p \in Callers |-> "idle"]
    /\ lock = 0
    /\ wake_at = [p \in Callers |-> 0]
    /\ consumed = 0
    /\ refilled = FALSE

\* the cache is not used
NoCache ==
    /\ memory_cache = MemoryCache_new(1)
    /\ cache_last = [op |-> "new", key |-> "", T |-> "", result |-> Miss, removed |-> FALSE]
    /\ cache_hung = FALSE
    /\ cache_ops = 0
    /\ cache_hist = NoCacheHistory
    /\ cache_config = CacheConfig_default
    /\ redis_written = << >>
    /\ handles = 1
    /\ cleanup_task = "none"

\* RateLimiter::new() followed by add_service for the configured service
Init ==
    /\ now = 0
    /\ overflow_checks \in BOOLEAN
    /\ \E config \in RateLimitConfigs :
          rate_limiter = RateLimiter_add_service(RateLimiter_new, ConfiguredService, config, 0)
    /\ last = [op |-> "new", service |-> "", at |-> 0, result |-> NoResult, value |-> None]
    /\ hist = FreshHistory(0)
    /\ NoCallers
    /\ NoCache
    /\ NoExtras

Next ==
    \/ Tick
    \/ \E s \in ServiceNames : CheckRateLimit(s)
    \/ \E s \in ServiceNames : ConsumeToken(s)
    \/ \E s \in ServiceNames : GetTokenCount(s)
    \/ \E s \in ServiceNames : TimeUntilAvailable(s)
    \/ GetStatus
    \/ ResetAll
    \/ \E s \in ServiceNames : AcquirePermit(s)

Spec == Init /\ [][Next]_vars

----------------------------------------------------------------------------
(* acquire_permit, called by concurrent tasks.  acquire_permit takes         *)
(* &mut self: its caller holds the write guard of the RwLock around the     *)
(* limiter from the call until the future completes, sleep(delay) included. *)

TokensOf(rl) == rl.buckets[ConfiguredService].tokens

\* task p takes the write guard and calls acquire_permit
AcquireCall(p) ==
    /\ pc[p] = "idle"
    /\ lock = 0
    /\ LET c == RateLimiter_check_rate_limit(rate_limiter, ConfiguredService, now)
           a == RateLimiter_acquire_permit(rate_limiter, ConfiguredService, now)
       IN  /\ rate_limiter' = a.limiter
           /\ refilled' = (refilled \/ TokensOf(c.limiter) # TokensOf(rate_limiter))
           /\ consumed' = consumed + (TokensOf(c.limiter) - TokensOf(a.limiter))
           /\ pc' = [pc EXCEPT ![p] = CASE a.outcome = "Ok" -> "ok"
                                        [] a.outcome = "Sleep" -> "sleeping"
                                        [] a.outcome = "Err" -> "err"
                                        [] OTHER -> "panicked"]
           /\ lock' = IF a.outcome = "Sleep" THEN p ELSE 0
           /\ wake_at' = [wake_at EXCEPT ![p] = now + a.delay]
    /\ UNCHANGED <<extraVars, now, overflow_checks, last, hist, cacheVars>>

\* the sleep of task p is over: acquire_permit consumes, returns Ok and the
\* caller drops the guard
AcquireWake(p) ==
    /\ pc[p] = "sleeping"
    /\ now >= wake_at[p]
    /\ LET rl == RateLimiter_acquire_permit_resume(rate_limiter, ConfiguredService, now)
       IN  /\ rate_limiter' = rl
           /\ consumed' = consumed + (TokensOf(rate_limiter) - TokensOf(rl))
    /\ pc' = [pc EXCEPT ![p] = "ok"]
    /\ lock' = 0
    /\ UNCHANGED <<extraVars, now, overflow_checks, last, hist, wake_at, refilled, cacheVars>>

InitAcquire == Init

NextAcquire ==
    \/ Tick
    \/ \E p \in Callers : AcquireCall(p)
    \/ \E p \in Callers : AcquireWake(p)

SpecAcquire == InitAcquire /\ [][NextAcquire]_vars

----------------------------------------------------------------------------
(* The CacheService, called one call at a time: each call takes the write   *)
(* lock of memory_cache for the MemoryCache operation it runs.              *)

CacheCall(op, key, T, result, removed) ==
    [op |-> op, key |-> key, T |-> T, result |-> result, removed |-> removed]

\* the clock advances
CacheTick ==
    /\ now < MaxCacheTime
    /\ now' = now + 1
    /\ UNCHANGED <<extraVars, overflow_checks, limiterVars, acquireVars, cacheVars>>

\* a cache call can be made: no earlier call is stuck holding the lock
CacheReady == ~cache_hung /\ cache_ops < MaxCacheOps

CacheSet(key, value, ttl) ==
    /\ CacheReady
    /\ LET r == CacheService_set(memory_cache, key, value, ttl, now)
       IN  /\ memory_cache' = r.cache
           /\ cache_hung' = r.diverges
           /\ cache_hist' = [cache_hist EXCEPT
                   !.recency = Recency(@, DOMAIN r.cache.entries, key, ~r.diverges)]
           /\ redis_written' = IF cache_config.enable_redis /\ ~r.diverges
                               THEN MapInsert(redis_written, key,
                                              [data |-> to_vec(value), ttl |-> ttl,
                                               written_at |-> now])
                               ELSE redis_written
    /\ cache_last' = CacheCall("set", key, "", Miss, FALSE)
    /\ cache_ops' = cache_ops + 1
    /\ UNCHANGED <<extraVars, now, overflow_checks, limiterVars, acquireVars, serviceVars>>

CacheGet(key, T) ==
    /\ CacheReady
    /\ LET r == CacheService_get(memory_cache, key, T, now)
       IN  /\ memory_cache' = r.cache
           /\ cache_last' = CacheCall("get", key, T, r.result, FALSE)
           /\ cache_hist' =
                 [hits |-> cache_hist.hits + (IF r.result.kind = "Hit" THEN 1 ELSE 0),
                  misses |-> cache_hist.misses + (IF r.result.kind = "Miss" THEN 1 ELSE 0),
                  recency |-> Recency(cache_hist.recency, DOMAIN r.cache.entries, key,
                                      r.result.kind = "Hit"),
                  found |-> MemoryCache_get(memory_cache, key, now).entry # None]
    /\ cache_ops' = cache_ops + 1
    /\ UNCHANGED <<extraVars, now, overflow_checks, limiterVars, acquireVars, cache_hung, redis_written,
                   serviceVars>>

CacheRemove(key) ==
    /\ CacheReady
    /\ LET r == CacheService_remove(memory_cache, key)
       IN  /\ memory_cache' = r.cache
           /\ cache_last' = CacheCall("remove", key, "", Miss, r.removed)
           /\ cache_hist' = [cache_hist EXCEPT
                   !.recency = Recency(@, DOMAIN r.cache.entries, key, FALSE)]
    /\ redis_written' = IF cache_config.enable_redis
                        THEN MapRemove(redis_written, key)
                        ELSE redis_written
    /\ cache_ops' = cache_ops + 1
    /\ UNCHANGED <<extraVars, now, overflow_checks, limiterVars, acquireVars, cache_hung, serviceVars>>

CacheClear ==
    /\ CacheReady
    /\ memory_cache' = CacheService_clear(memory_cache)
    /\ cache_last' = CacheCall("clear", "", "", Miss, FALSE)
    /\ cache_hist' = [cache_hist EXCEPT !.recency = << >>]
    /\ redis_written' = IF cache_config.enable_redis THEN << >> ELSE redis_written
    /\ cache_ops' = cache_ops + 1
    /\ UNCHANGED <<extraVars, now, overflow_checks, limiterVars, acquireVars, cache_hung, serviceVars>>

\* one round of the task spawned by start_cleanup_task
CleanupTask ==
    /\ CacheReady
    /\ memory_cache' = MemoryCache_cleanup_expired(memory_cache, now)
    /\ cache_last' = CacheCall("cleanup_expired", "", "", Miss, FALSE)
    /\ cache_hist' = [cache_hist EXCEPT
            !.recency = Recency(@, DOMAIN memory_cache'.entries, "", FALSE)]
    /\ cache_ops' = cache_ops + 1
    /\ UNCHANGED <<extraVars, now, overflow_checks, limiterVars, acquireVars, cache_hung, redis_written,
                   serviceVars>>

\* CacheService::with_config with max_memory_entries >= 1; the limiter is not used
InitCache ==
    /\ now = 0
    /\ overflow_checks = FALSE
    /\ rate_limiter = RateLimiter_new
    /\ last = [op |-> "new", service |-> "", at |-> 0, result |-> NoResult, value |-> None]
    /\ hist = FreshHistory(0)
    /\ NoCallers
    /\ \E max_entries \in 1 .. MaxEntries : memory_cache = MemoryCache_new(max_entries)
    /\ cache_last = [op |-> "new", key |-> "", T |-> "", result |-> Miss, removed |-> FALSE]
    /\ cache_hung = FALSE
    /\ cache_ops = 0
    /\ cache_hist = NoCacheHistory
    /\ cache_config = CacheConfig_default
    /\ redis_written = << >>
    /\ handles = 1
    /\ cleanup_task = "none"
    /\ NoExtras

NextCache ==
    \/ CacheTick
    \/ \E key \in Keys, value \in JsonValues, ttl \in Ttls : CacheSet(key, value, ttl)
    \/ \E key \in Keys, T \in TargetTypes : CacheGet(key, T)
    \/ \E key \in Keys : CacheRemove(key)
    \/ CacheClear
    \/ CleanupTask

SpecCache == InitCache /\ [][NextCache]_vars

----------------------------------------------------------------------------
(* The life of a CacheService and of the task spawned by start_cleanup_task: *)
(* the task owns a clone of the Arc around the MemoryCache, its JoinHandle   *)
(* is dropped at once, and its loop has no exit                              *)

\* CacheService::clone (#[derive(Clone)])
CloneService ==
    /\ handles > 0
    /\ handles < MaxHandles
    /\ handles' = handles + 1
    /\ UNCHANGED <<extraVars, now, overflow_checks, limiterVars, acquireVars, memory_cache, cache_last,
                   cache_hung, cache_ops, cache_hist, redis_written, cache_config,
                   cleanup_task>>

\* a CacheService value is dropped; with the last one the service is gone
DropService ==
    /\ handles > 0
    /\ handles' = handles - 1
    /\ UNCHANGED <<extraVars, now, overflow_checks, limiterVars, acquireVars, memory_cache, cache_last,
                   cache_hung, cache_ops, cache_hist, redis_written, cache_config,
                   cleanup_task>>

\* CacheService::start_cleanup_task: tokio::spawn of the loop, which first
\* waits for its interval
StartCleanupTask ==
    /\ handles > 0
    /\ cleanup_task = "none"
    /\ cleanup_task' = "interval"
    /\ UNCHANGED <<extraVars, now, overflow_checks, limiterVars, acquireVars, memory_cache, cache_last,
                   cache_hung, cache_ops, cache_hist, redis_written, cache_config, handles>>

\* the task: interval.tick().await completes
IntervalTick ==
    /\ cleanup_task = "interval"
    /\ cleanup_task' = "cleanup"
    /\ UNCHANGED <<extraVars, now, overflow_checks, limiterVars, acquireVars, memory_cache, cache_last,
                   cache_hung, cache_ops, cache_hist, redis_written, cache_config, handles>>

\* the task: it takes the write lock, runs cleanup_expired and loops
CleanupRun ==
    /\ cleanup_task = "cleanup"
    /\ ~cache_hung
    /\ memory_cache' = MemoryCache_cleanup_expired(memory_cache, now)
    /\ cache_last' = CacheCall("cleanup_expired", "", "", Miss, FALSE)
    /\ cache_hist' = [cache_hist EXCEPT
            !.recency = Recency(@, DOMAIN memory_cache'.entries, "", FALSE)]
    /\ cleanup_task' = "interval"
    /\ UNCHANGED <<extraVars, now, overflow_checks, limiterVars, acquireVars, cache_hung, cache_ops,
                   redis_written, cache_config, handles>>

\* set, called through a CacheService that is still alive
ServiceSet(key, value, ttl) == handles > 0 /\ CacheSet(key, value, ttl)

\* CacheService::with_config(CacheConfig { enable_redis: true, .. })
InitRedis ==
    /\ now = 0
    /\ overflow_checks = FALSE
    /\ rate_limiter = RateLimiter_new
    /\ last = [op |-> "new", service |-> "", at |-> 0, result |-> NoResult, value |-> None]
    /\ hist = FreshHistory(0)
    /\ NoCallers
    /\ \E max_entries \in 1 .. MaxEntries : memory_cache = MemoryCache_new(max_entries)
    /\ cache_last = [op |-> "new", key |-> "", T |-> "", result |-> Miss, removed |-> FALSE]
    /\ cache_hung = FALSE
    /\ cache_ops = 0
    /\ cache_hist = NoCacheHistory
    /\ cache_config = [CacheConfig_default EXCEPT !.enable_redis = TRUE]
    /\ redis_written = << >>
    /\ handles = 1
    /\ cleanup_task = "none"
    /\ NoExtras

SpecRedis == InitRedis /\ [][NextCache]_vars

NextCleanup ==
    \/ CacheTick
    \/ \E key \in Keys, value \in JsonValues, ttl \in Ttls : ServiceSet(key, value, ttl)
    \/ CloneService
    \/ DropService
    \/ StartCleanupTask
    \/ IntervalTick
    \/ CleanupRun

\* the runtime keeps running the spawned task and its interval keeps firing
SpecCleanup ==
    InitCache /\ [][NextCleanup]_vars /\ WF_vars(IntervalTick) /\ WF_vars(CleanupRun)

----------------------------------------------------------------------------
(* Claims about the token bucket *)

Admitted == {p \in Callers : pc[p] = "ok"}
AllReturned == \A p \in Callers : pc[p] \in {"ok", "err"}

\* C1: from a bucket of k tokens (a new bucket: k = capacity), when N > k
\* callers have all run acquire_permit and no refill added a token, exactly k
\* of them were admitted (returned Ok).
C1_ExactlyKAdmitted ==
    (AllReturned /\ ~refilled /\ NumCallers > Bucket.capacity)
        => Cardinality(Admitted) = Bucket.capacity

\* a step in which a call that refills (check_rate_limit, get_token_count,
\* time_until_available, get_status) ran and changed the limiter
RefillCalls == {"check_rate_limit", "get_token_count", "time_until_available", "get_status"}
RefillingStep == rate_limiter' # rate_limiter /\ last'.op \in RefillCalls

TokensWithinCapacity ==
    \A s \in DOMAIN rate_limiter.buckets :
        /\ 0 <= rate_limiter.buckets[s].tokens
        /\ rate_limiter.buckets[s].tokens <= rate_limiter.buckets[s].capacity

\* C2: 0 <= tokens <= capacity in every state, and the u32 addition of refill
\* never overflows: a refilling call neither panics nor leaves fewer tokens
\* than it found (a wrapped sum is smaller than the count it started from).
C2_TokensWithinCapacityNoWrap ==
    [][/\ TokensWithinCapacity'
       /\ last'.result.kind # "Panicked"
       /\ RefillingStep => TokensOf(rate_limiter') >= TokensOf(rate_limiter)]_vars

\* C3: every Ok returned by acquire_permit corresponds to exactly one token
\* decremented: consume_token is never reached on an empty bucket.
C3_EveryOkSpendsAToken == Cardinality(Admitted) = consumed

\* the last call was check_rate_limit on the configured bucket, made just now
\* and returning a decision
JustChecked ==
    /\ last.op = "check_rate_limit"
    /\ last.service = ConfiguredService
    /\ last.at = now
    /\ last.result.kind # "Panicked"

WithinMinInterval(b) ==
    b.last_request # None /\ now - b.last_request[1] < b.min_interval

\* the last call was check_rate_limit on the configured bucket, made just now,
\* whether it returned a decision or panicked in refill
Checked ==
    /\ last.op = "check_rate_limit"
    /\ last.service = ConfiguredService
    /\ last.at = now

\* the decision check_request owes for the bucket b it leaves behind
DecisionFor(b) ==
    /\ b.last_refill = now
    /\ WithinMinInterval(b) =>
          last.result = Delayed(b.min_interval - (now - b.last_request[1]))
    /\ (~WithinMinInterval(b) /\ b.tokens > 0) => last.result = Allowed
    /\ (~WithinMinInterval(b) /\ b.tokens = 0) =>
          /\ last.result.kind = "Denied"
          /\ last.result.duration.num * b.refill_rate.num
                = last.result.duration.den * b.refill_rate.den

\* C4: for every bucket state and time check_request refills first, then
\* returns Delayed with delay = min_interval - (now - last_request) when the
\* last request is less than min_interval old, whatever the token count;
\* otherwise Allowed exactly when tokens > 0 and Denied with
\* retry_after = 1 / refill_rate exactly when tokens = 0.
C4_CheckRequestDecision == Checked => DecisionFor(Bucket)

\* the same decision order, on the calls that return: it holds, so the only
\* calls that break C4 are those whose refill overflows
C4_DecisionWhenReturned == JustChecked => DecisionFor(Bucket)

\* C5: a check never decreases the tokens and never changes last_request.
C5_CheckCostsNothing ==
    [][(rate_limiter' # rate_limiter /\ last'.op = "check_rate_limit")
          => /\ TokensOf(rate_limiter') >= TokensOf(rate_limiter)
             /\ rate_limiter'.buckets[ConfiguredService].last_request
                    = Bucket.last_request]_vars

\* C6: once a check returned Denied at time t, with no consume_token or reset
\* since, no check made at a time >= t + retry_after (retry_after =
\* 1 / refill_rate) returns Denied.
C6_RetryAfterIsEnough ==
    (JustChecked /\ hist.denied_at # None
        /\ (now - hist.denied_at[1]) * Bucket.refill_rate.num >= Bucket.refill_rate.den)
      => last.result.kind # "Denied"

\* C7, the burst: on a bucket without min_interval, with no time passed since
\* it was created (or reset), a check is Allowed while fewer than capacity
\* consume_token calls were made and Denied after capacity of them.
C7_Burst ==
    (JustChecked /\ now = hist.fresh_at /\ Bucket.min_interval = 0)
        => /\ hist.consumes < Bucket.capacity => last.result = Allowed
           /\ hist.consumes >= Bucket.capacity => last.result.kind = "Denied"

\* C7, the recovery: a check on an empty bucket without min_interval that was
\* not refilled for a full time_window returns Allowed.
C7_Recovery ==
    (/\ rate_limiter' # rate_limiter
     /\ last'.op = "check_rate_limit"
     /\ last'.service = ConfiguredService
     /\ Bucket.min_interval = 0
     /\ Bucket.tokens = 0
     /\ now - Bucket.last_refill >= Bucket.refill_rate.den)
        => last'.result = Allowed

\* C7: a new bucket of capacity c without min_interval admits exactly c
\* immediate check + consume pairs, denies the next immediate check, and
\* allows the next check once a full time_window has elapsed.
C7_BurstThenRecovery == []C7_Burst /\ [][C7_Recovery]_vars

\* C7 witness: the whole capacity was consumed, a check was Denied, and a
\* later check is Allowed
C7_Witness ==
    /\ JustChecked
    /\ Bucket.min_interval = 0
    /\ hist.consumes = Bucket.capacity
    /\ hist.denied_at # None
    /\ now >= hist.denied_at[1] + Bucket.refill_rate.den
    /\ last.result = Allowed

\* C8: no task sleeps inside a rate-limiter operation while it holds the
\* exclusive lock of the limiter.
C8_NoSleepUnderLock == \A p \in Callers : pc[p] = "sleeping" => lock # p

----------------------------------------------------------------------------
(* Claims about the cache *)

\* a step in which get(key) ran
CacheGetStep(key) ==
    cache_ops' # cache_ops /\ cache_last'.op = "get" /\ cache_last'.key = key

\* C9: an entry stored at created_at with time to live ttl, looked up with a
\* type its payload decodes to, is a Hit at every time < created_at + ttl; at
\* every time >= created_at + ttl the lookup is a Miss, the entry is removed
\* and the miss counter goes up by one.
C9_HitBeforeTtlMissFromTtl ==
    [][\A key \in Keys :
          (/\ CacheGetStep(key)
           /\ key \in DOMAIN memory_cache.entries
           /\ from_slice(memory_cache.entries[key].data, cache_last'.T) # None)
          => LET e == memory_cache.entries[key]
             IN  /\ now < e.created_at + e.ttl => cache_last'.result.kind = "Hit"
                 /\ now >= e.created_at + e.ttl =>
                       /\ cache_last'.result.kind = "Miss"
                       /\ key \notin DOMAIN memory_cache'.entries
                       /\ memory_cache'.stats.misses = memory_cache.stats.misses + 1]_vars

\* C10: the number of stored entries never exceeds max_entries.
C10_AtMostMaxEntries == Len_entries(memory_cache) <= memory_cache.max_entries

\* C10 witness: a set into a full cache evicted an entry and returned
C10_Witness ==
    /\ cache_last.op = "set"
    /\ ~cache_hung
    /\ memory_cache.stats.evictions > 0
    /\ Len_entries(memory_cache) = memory_cache.max_entries

\* a step in which a cache call of this kind ran
CacheStep(op) == cache_ops' # cache_ops /\ cache_last'.op = op

\* a step in which set ran for a key that was not stored, on a full cache
SetNewKeyWhenFull ==
    /\ CacheStep("set")
    /\ cache_last'.key \notin DOMAIN memory_cache.entries
    /\ Len_entries(memory_cache) >= memory_cache.max_entries

\* C11: setting a new key into a full cache evicts exactly one key, the one
\* whose most recent successful get or set is the oldest among the stored
\* keys; every other key stays stored.
C11_EvictsLeastRecentlyUsed ==
    [][SetNewKeyWhenFull =>
          /\ DOMAIN memory_cache'.entries =
                (DOMAIN memory_cache.entries \ {Head(cache_hist.recency)})
                    \cup {cache_last'.key}
          /\ memory_cache'.stats.evictions = memory_cache.stats.evictions + 1]_vars

\* C11 witness: a set evicted a key while a key that had been read before
\* stayed stored
C11_Witness ==
    /\ cache_last.op = "set"
    /\ memory_cache.stats.evictions = 1
    /\ Len_entries(memory_cache) = memory_cache.max_entries
    /\ \E k \in DOMAIN memory_cache.entries :
          k # cache_last.key /\ memory_cache.entries[k].access_count > 0

\* C12: set on a key that is already stored, even on a full cache, replaces
\* that key's entry, evicts no other key and leaves the eviction counter as
\* it was.
C12_OverwriteEvictsNothing ==
    [][(CacheStep("set") /\ cache_last'.key \in DOMAIN memory_cache.entries) =>
          /\ DOMAIN memory_cache'.entries = DOMAIN memory_cache.entries
          /\ \A k \in DOMAIN memory_cache.entries \ {cache_last'.key} :
                memory_cache'.entries[k] = memory_cache.entries[k]
          /\ memory_cache'.stats.evictions = memory_cache.stats.evictions
          /\ ~cache_hung' => memory_cache'.entries[cache_last'.key].created_at = now]_vars

\* the sum of the byte sizes of the stored entries
RECURSIVE StoredBytes(_)
StoredBytes(entries) ==
    IF DOMAIN entries = {} THEN 0
    ELSE LET key == CHOOSE k \in DOMAIN entries : TRUE
         IN  Len(entries[key].data) + StoredBytes(MapRemove(entries, key))

\* C13: stats.memory_usage is the sum of the byte sizes of the stored entries.
C13_MemoryUsageIsStoredBytes ==
    memory_cache.stats.memory_usage = StoredBytes(memory_cache.entries)

\* C14: after h calls of get returned Hit and m returned Miss, get_stats
\* reports hits = h, misses = m and hit_rate = h / (h + m), and hit_rate = 0
\* when h + m = 0.
C14_StatsCountReturnedResults ==
    LET stats == CacheService_get_stats(memory_cache)
        h == cache_hist.hits
        m == cache_hist.misses
    IN  /\ stats.hits = h
        /\ stats.misses = m
        /\ h + m > 0 => stats.hit_rate.num * (h + m) = h * stats.hit_rate.den
        /\ h + m = 0 => stats.hit_rate.num = 0

\* C15: a get that finds a non-expired entry whose payload does not
\* deserialize into the requested type returns Miss, and the entry is no
\* longer stored afterwards.
C15_CorruptedEntryIsAMissAndRemoved ==
    [][\A key \in Keys :
          (/\ CacheGetStep(key)
           /\ key \in DOMAIN memory_cache.entries
           /\ now < memory_cache.entries[key].created_at + memory_cache.entries[key].ttl
           /\ from_slice(memory_cache.entries[key].data, cache_last'.T) = None)
          => /\ cache_last'.result = Miss
             /\ key \notin DOMAIN memory_cache'.entries]_vars

\* C15 witness: a lookup made at time 0 found an entry in the memory tier,
\* returned Miss and left the key unstored
C15_Witness ==
    /\ cache_last.op = "get"
    /\ now = 0
    /\ cache_hist.found
    /\ cache_last.result = Miss
    /\ cache_last.key \notin DOMAIN memory_cache.entries

\* a get of the stored value v of key, asking for a type v fits, returns
\* Hit(v, Memory) while the time to live has not elapsed
RoundTripOfStoredValue ==
    \A key \in Keys, v \in JsonValues :
        (/\ CacheGetStep(key)
         /\ key \in DOMAIN memory_cache.entries
         /\ memory_cache.entries[key].data = to_vec(v)
         /\ cache_last'.T \in {"json", v.ty}
         /\ now < memory_cache.entries[key].created_at + memory_cache.entries[key].ttl)
        => cache_last'.result = Hit(v, "Memory")

\* set(key, v, ttl) returns, and stores the serialized v under key with ttl
SetReturnsAndStores ==
    \A key \in Keys, v \in JsonValues, ttl \in Ttls :
        (CacheReady /\ CacheSet(key, v, ttl)) =>
            /\ ~cache_hung'
            /\ key \in DOMAIN memory_cache'.entries
            /\ memory_cache'.entries[key].data = to_vec(v)
            /\ memory_cache'.entries[key].created_at = now
            /\ memory_cache'.entries[key].ttl = ttl

\* C16: set(k, v, ttl) returns Ok whenever v serializes, and a get(k) made
\* before ttl elapses, with the value still stored, returns Hit(v, Memory).
C16_RoundTrip == [][SetReturnsAndStores /\ RoundTripOfStoredValue]_vars

\* the round trip alone: it holds, so C16 fails only where set does not return
C16_RoundTripWhenStored == [][RoundTripOfStoredValue]_vars

\* C17, the call: remove(k) returns true exactly when k was stored; after it
\* k is not stored, and every other key keeps its entry and its place in the
\* LRU order.
C17_Remove ==
    CacheStep("remove") =>
        LET key == cache_last'.key
        IN  /\ cache_last'.removed = (key \in DOMAIN memory_cache.entries)
            /\ memory_cache'.entries = MapRemove(memory_cache.entries, key)
            /\ memory_cache'.access_order = Retain(memory_cache.access_order, key)

\* C17, afterwards: a get of a key that is not stored is a Miss, and only
\* set(k) stores k.
C17_MissUntilSet ==
    \A key \in Keys :
        /\ (CacheGetStep(key) /\ key \notin DOMAIN memory_cache.entries)
              => cache_last'.result = Miss
        /\ (key \notin DOMAIN memory_cache.entries /\ key \in DOMAIN memory_cache'.entries)
              => (cache_last'.op = "set" /\ cache_last'.key = key)

\* C17: remove(k) returns true exactly when k was stored; afterwards get(k)
\* is a Miss until the next set(k), and no other key's entry or LRU position
\* is changed.
C17_RemoveOnlyThatKey == [][C17_Remove /\ C17_MissUntilSet]_vars

\* C17 witness: remove returned true on a cache that held another key, which
\* is still stored
C17_Witness ==
    /\ cache_last.op = "remove"
    /\ cache_last.removed
    /\ memory_cache.access_order # << >>
    /\ cache_last.key \notin DOMAIN memory_cache.entries

\* the time to live of the entry has elapsed: ttl or more has passed since it
\* was stored
TtlElapsed(entry) == now >= entry.created_at + entry.ttl

\* the time to live of the entry was exceeded: more than ttl has passed
TtlExceeded(entry) == now > entry.created_at + entry.ttl

\* what a sweep owes when gone(entry) says which entries are to go: they are
\* removed, the others keep their payload and their relative LRU order, and
\* the hit and miss counters stay as they were
SweepRemovesExactly(gone(_)) ==
    CacheStep("cleanup_expired") =>
        LET kept == {k \in DOMAIN memory_cache.entries : ~gone(memory_cache.entries[k])}
        IN  /\ DOMAIN memory_cache'.entries = kept
            /\ \A k \in kept : memory_cache'.entries[k] = memory_cache.entries[k]
            /\ memory_cache'.access_order =
                  SelectSeq(memory_cache.access_order, LAMBDA k : k \in kept)
            /\ memory_cache'.stats.hits = memory_cache.stats.hits
            /\ memory_cache'.stats.misses = memory_cache.stats.misses

\* C18: cleanup_expired removes every entry whose TTL has elapsed, read or
\* not, and nothing else: the other entries keep their payload and their
\* relative LRU order, and the hit and miss counters are unchanged.
C18_CleanupRemovesExactlyTheExpired == [][SweepRemovesExactly(TtlElapsed)]_vars

\* the same with an entry counted as expired only once its ttl is exceeded:
\* it holds, so C18 fails only for entries that are exactly ttl old
C18_CleanupRemovesTheExceeded == [][SweepRemovesExactly(TtlExceeded)]_vars

\* C19: once every CacheService value has been dropped, the cleanup task
\* eventually runs cleanup_expired no more: from some point on, no run is made
\* while no CacheService value is alive (a dropped service stays dropped).
C19_CleanupTaskStops == <>[][handles = 0 => ~CleanupRun]_vars

\* C20: with the remote tier enabled, a get(k) that finds nothing in memory
\* while the remote tier holds a payload for k that deserializes (it was
\* written there by set, its ttl has not elapsed, and it was not deleted or
\* flushed since) returns Hit with tier Redis, and the payload is stored in
\* the memory tier under k with config.default_ttl when get returns.
C20_RedisHitIsPromoted ==
    [][\A key \in Keys :
          (/\ CacheGetStep(key)
           /\ cache_config.enable_redis
           /\ key \notin DOMAIN memory_cache.entries
           /\ key \in DOMAIN redis_written
           /\ now < redis_written[key].written_at + redis_written[key].ttl
           /\ from_slice(redis_written[key].data, cache_last'.T) # None)
          => /\ cache_last'.result.kind = "Hit"
             /\ cache_last'.result.tier = "Redis"
             /\ cache_last'.result.value = from_slice(redis_written[key].data, cache_last'.T)
             /\ key \in DOMAIN memory_cache'.entries
             /\ memory_cache'.entries[key].data = redis_written[key].data
             /\ memory_cache'.entries[key].ttl = cache_config.default_ttl]_vars


----------------------------------------------------------------------------
(* The fixed-window store, called by concurrent requests: each call runs    *)
(* under the write lock of windows, so the calls happen one after another   *)

coreVars == <<overflow_checks, limiterVars, acquireVars, cacheVars>>

\* the token-bucket limiter and the cache are not used
NoCore ==
    /\ overflow_checks = FALSE
    /\ rate_limiter = RateLimiter_new
    /\ last = [op |-> "new", service |-> "", at |-> 0, result |-> NoResult, value |-> None]
    /\ hist = FreshHistory(0)
    /\ NoCallers
    /\ NoCache

\* a request with this key reaches check_rate_limit; the history counts the
\* calls (up to MaxLimit + 1) and the Allowed results of the key's window,
\* which begins with the call that creates the window or finds it expired
StoreCheckRateLimit(key) ==
    LET r == MemoryRateLimitStore_check_rate_limit(windows, key, store_config, now)
        fresh == key \notin DOMAIN windows \/ RateLimitWindow_is_expired(windows[key], now)
        h == IF fresh THEN [calls |-> 0, allowed |-> 0] ELSE store_hist[key]
    IN  /\ windows' = r.windows
        /\ store_last' = [op |-> "check_rate_limit", key |-> key, at |-> now,
                          result |-> r.result]
        /\ store_hist' = [store_hist EXCEPT ![key] =
                             [calls |-> Min(h.calls + 1, MaxLimit + 1),
                              allowed |-> h.allowed
                                           + (IF r.result.kind = "Allowed" THEN 1 ELSE 0)]]
        /\ UNCHANGED <<now, store_config, coreVars, matchVars, slidingVars, clientVars>>

\* one round of cleanup_rate_limits
StoreCleanupExpired ==
    /\ windows' = MemoryRateLimitStore_cleanup_expired(windows, now)
    /\ store_last' = [op |-> "cleanup_expired", key |-> "", at |-> now,
                      result |-> StoreLimited(0)]
    /\ UNCHANGED <<now, store_config, store_hist, coreVars, matchVars, slidingVars,
                   clientVars>>

\* MemoryRateLimitStore::new, and the configuration of the route
InitStore ==
    /\ now = 0
    /\ NoCore
    /\ NoStore
    /\ store_config \in StoreConfigs
    /\ NoMatch
    /\ NoSliding
    /\ NoClients

NextStore ==
    \/ Tick
    \/ \E key \in StoreKeys : StoreCheckRateLimit(key)
    \/ StoreCleanupExpired

SpecStore == InitStore /\ [][NextStore]_vars

----------------------------------------------------------------------------
(* Claims about the fixed-window store *)

StoreCallStep == store_last' # store_last /\ store_last'.op = "check_rate_limit"

\* what the i-th call of a window with limit L has to return, and do to the count
IthCallOfWindow(L) ==
    LET k == store_last'.key
        i == store_hist'[k].calls
        before == IF k \in DOMAIN windows /\ ~RateLimitWindow_is_expired(windows[k], now)
                  THEN windows[k].count
                  ELSE 0
    IN  IF i <= L
        THEN store_last'.result.kind = "Allowed" /\ store_last'.result.remaining = L - i
        ELSE store_last'.result.kind = "Limited" /\ windows'[k].count = before

\* C21: with limit L, the i-th call in a window of a key (1 <= i <= L) returns
\* Allowed with remaining = L - i, every further call in that window returns
\* Limited and leaves the count alone, and no window of a key sees more than
\* L Allowed results, however the callers interleave.
C21_AtMostLAllowedPerWindow ==
    /\ [](\A k \in StoreKeys : store_hist[k].allowed <= store_config.requests_per_window)
    /\ [][StoreCallStep => IthCallOfWindow(store_config.requests_per_window)]_vars

\* the same for the limits of at least one request per window
C21_WhenLimitPositive ==
    /\ [](store_config.requests_per_window >= 1 =>
            \A k \in StoreKeys : store_hist[k].allowed <= store_config.requests_per_window)
    /\ [][StoreCallStep /\ store_config.requests_per_window >= 1
            => IthCallOfWindow(store_config.requests_per_window)]_vars


----------------------------------------------------------------------------
(* find_matching_config, applied to the configurations of a RateLimitState  *)
(* and to the paths of requests                                             *)

\* RateLimitState::with_config: any patterns, each with its own limit; the
\* HashMap iterates them in an order of its own
InitMatch ==
    /\ now = 0
    /\ NoCore
    /\ NoStore
    /\ store_config = [requests_per_window |-> 1, window_duration_secs |-> 1]
    /\ \E patterns \in SUBSET Strings(1, MaxPattern) :
          /\ Cardinality(patterns) <= MaxConfigs
          /\ configs \in [patterns -> [requests_per_window : 1 .. MaxLimit]]
          /\ iter_order \in IterationOrders(patterns)
    /\ lookup = [called |-> FALSE, path |-> << >>, result |-> None]
    /\ NoSliding
    /\ NoClients

\* a request for this path reaches find_matching_config
FindMatchingConfig(path) ==
    /\ lookup' = [called |-> TRUE, path |-> path,
                  result |-> find_matching_config(configs, iter_order, path)]
    /\ UNCHANGED <<now, configs, iter_order, coreVars, storeVars, slidingVars, clientVars>>

NextMatch == \E path \in Strings(0, MaxPath) : FindMatchingConfig(path)

SpecMatch == InitMatch /\ [][NextMatch]_vars

----------------------------------------------------------------------------
(* Claims about find_matching_config *)

\* the configured patterns the path starts with
PrefixesOf(path) == {pattern \in DOMAIN configs : starts_with(path, pattern)}

\* the longest of them
LongestPrefixOf(path) ==
    CHOOSE pattern \in PrefixesOf(path) :
        \A other \in PrefixesOf(path) : Len(other) <= Len(pattern)

\* C22: find_matching_config returns the configuration of the exact match, or
\* else that of the longest configured pattern that is a prefix of the path;
\* the result depends on the configurations and the path only, and it is
\* None only when no configured pattern is a prefix of the path.
C22_ExactThenLongestPrefix ==
    lookup.called =>
        /\ lookup.result =
              IF lookup.path \in DOMAIN configs THEN Some(configs[lookup.path])
              ELSE IF PrefixesOf(lookup.path) # {}
                   THEN Some(configs[LongestPrefixOf(lookup.path)])
                   ELSE None
        /\ (lookup.result = None <=> PrefixesOf(lookup.path) = {})

\* what holds of every iteration order: an exact match wins, a prefix match
\* returns the configuration of some prefix, and None means no prefix
C22_ExactThenSomePrefix ==
    lookup.called =>
        /\ lookup.path \in DOMAIN configs => lookup.result = Some(configs[lookup.path])
        /\ lookup.result # None =>
              \E pattern \in PrefixesOf(lookup.path) : lookup.result = Some(configs[pattern])
        /\ (lookup.result = None <=> PrefixesOf(lookup.path) = {})


----------------------------------------------------------------------------
(* The sliding-window RateLimiter behind its Mutex: make_request holds the  *)
(* guard while acquire runs, so one acquire call runs at a time             *)

MaxAcquires == 4

\* make_request locks the limiter and calls acquire, which returns at once
\* or reaches sleep(wait_time)
SlidingAcquireCall ==
    /\ acquire_pc.state = "idle"
    /\ Len(returned) < MaxAcquires
    /\ LET a == SlidingRateLimiter_acquire(sliding, now)
       IN  IF a.wait_time > 0
           THEN /\ sliding' = a.limiter
                /\ acquire_pc' = [state |-> "sleeping", t0 |-> now,
                                  wake_at |-> now + a.wait_time]
                /\ UNCHANGED returned
           ELSE /\ sliding' = SlidingRateLimiter_acquire_resume(a.limiter, now, now)
                /\ acquire_pc' = AcquireIdle
                /\ returned' = Append(returned, now)
    /\ UNCHANGED <<now, coreVars, storeVars, matchVars, clientVars>>

\* the sleep is over (not before wake_at): acquire records the request and returns
SlidingAcquireWake ==
    /\ acquire_pc.state = "sleeping"
    /\ now >= acquire_pc.wake_at
    /\ sliding' = SlidingRateLimiter_acquire_resume(sliding, acquire_pc.t0, now)
    /\ acquire_pc' = AcquireIdle
    /\ returned' = Append(returned, now)
    /\ UNCHANGED <<now, coreVars, storeVars, matchVars, clientVars>>

\* RateLimiter::new(max_requests, window_duration)
InitSliding ==
    /\ now = 0
    /\ NoCore
    /\ NoStore
    /\ store_config = [requests_per_window |-> 1, window_duration_secs |-> 1]
    /\ NoMatch
    /\ \E max_requests \in 1 .. MaxCapacity, window_duration \in 1 .. MaxWindow :
          sliding = SlidingRateLimiter_new(max_requests, window_duration)
    /\ acquire_pc = AcquireIdle
    /\ returned = << >>
    /\ NoClients

NextSliding ==
    \/ Tick
    \/ SlidingAcquireCall
    \/ SlidingAcquireWake

SpecSliding == InitSliding /\ [][NextSliding]_vars

----------------------------------------------------------------------------
(* Claims about the sliding-window RateLimiter *)

\* the recorded requests less than window_duration old at the time now
InsideWindow ==
    SelectSeq(sliding.requests, LAMBDA r : now - r < sliding.window_duration)

\* the acquire calls that returned in the span [t, t + window_duration)
ReturnedInSpan(t) ==
    {i \in DOMAIN returned : t <= returned[i] /\ returned[i] < t + sliding.window_duration}

SlidingCallStep == acquire_pc.state = "idle" /\ <<acquire_pc, returned>>' # <<acquire_pc, returned>>

\* C23: a call that finds fewer than max_requests requests inside the window
\* returns without waiting, a call that finds max_requests inside it is
\* delayed until the oldest of them leaves the window, and in every span of
\* window_duration at most max_requests acquire calls return.
C23_QuotaEnforced ==
    /\ [](\A t \in 0 .. MaxTime : Cardinality(ReturnedInSpan(t)) <= sliding.max_requests)
    /\ [][SlidingCallStep =>
            IF Len(InsideWindow) < sliding.max_requests
            THEN returned' = Append(returned, now)
            ELSE /\ acquire_pc'.state = "sleeping"
                 /\ acquire_pc'.wake_at = Head(InsideWindow) + sliding.window_duration]_vars

\* the part that holds: below the quota a call returns without waiting
C23_NoWaitBelowQuota ==
    [][SlidingCallStep /\ Len(InsideWindow) < sliding.max_requests
            => returned' = Append(returned, now)]_vars


----------------------------------------------------------------------------
(* Claims about consume_token and refill *)

\* this step is a consume_token call for the configured service
ConsumeTokenStep ==
    /\ now' = now
    /\ last'.op = "consume_token"
    /\ last'.service = ConfiguredService

\* C24: consume_token on a bucket with tokens > 0 takes exactly one token and
\* sets last_request to the current time; on a bucket with no token it
\* changes nothing.
C24_ConsumeToken ==
    [][ConsumeTokenStep =>
          IF Bucket.tokens > 0
          THEN Bucket' = [Bucket EXCEPT !.tokens = Bucket.tokens - 1,
                                        !.last_request = Some(now)]
          ELSE Bucket' = Bucket]_vars

\* a consume_token call made after the clock advanced took a token
C24_Witness ==
    /\ last.op = "consume_token"
    /\ last.service = ConfiguredService
    /\ now > 0
    /\ last.at = now
    /\ Bucket.last_request = Some(now)
    /\ Bucket.tokens < Bucket.capacity


\* this step is neither a consume_token nor a reset: the clock advances or a
\* call that refills is made
NoConsumeNoResetStep == now' # now \/ last'.op \in RefillCalls

\* C25: as long as no consume_token and no reset occurs, the token count never
\* decreases and never exceeds capacity, whatever refill and check calls are
\* made.
C25_MonotonicRefill ==
    [][NoConsumeNoResetStep =>
          /\ TokensOf(rate_limiter') >= TokensOf(rate_limiter)
          /\ TokensOf(rate_limiter') <= Bucket.capacity]_vars

\* the same in a build with overflow checks, where the sum cannot wrap
C25_MonotonicWhenChecked ==
    [][NoConsumeNoResetStep /\ overflow_checks =>
          /\ TokensOf(rate_limiter') >= TokensOf(rate_limiter)
          /\ TokensOf(rate_limiter') <= Bucket.capacity]_vars


----------------------------------------------------------------------------
(* Claims about the eviction loop, the LRU list and the entry count *)

\* C26: MemoryCache::set terminates for every cache state, key and
\* max_entries >= 1, the overwrite of a stored key in a full cache included:
\* no set call is left running in its eviction loop.
C26_SetTerminates == ~cache_hung

\* set of a key that is not stored terminates
C26_SetOfNewKeyTerminates ==
    [][(CacheStep("set") /\ cache_last'.key \notin DOMAIN memory_cache.entries)
          => ~cache_hung']_vars


\* the keys of the LRU list
OrderKeys(c) == {c.access_order[i] : i \in DOMAIN c.access_order}

\* C27: between operations, access_order holds exactly the keys stored in
\* entries, each exactly once, after any sequence of set, get, remove,
\* eviction, cleanup_expired and clear.
C27_AccessOrderIsTheKeys ==
    ~cache_hung =>
        /\ OrderKeys(memory_cache) = DOMAIN memory_cache.entries
        /\ Len(memory_cache.access_order) = Len_entries(memory_cache)

\* C27 witness: after an eviction, a get moved one of two stored keys to the
\* end of the list
C27_Witness ==
    /\ ~cache_hung
    /\ cache_last.op = "get"
    /\ cache_last.result.kind = "Hit"
    /\ memory_cache.stats.evictions > 0
    /\ Len(memory_cache.access_order) = 2
    /\ memory_cache.access_order[2] = cache_last.key


\* C28: after any sequence of set, get (lookups that purge an expired entry
\* included), remove, cleanup_expired and clear, the entries field of the
\* statistics returned by get_stats is the number of entries stored.
C28_StatsEntriesIsExact ==
    ~cache_hung => CacheService_get_stats(memory_cache).entries = Len_entries(memory_cache)

\* the calls that recompute the count leave it exact: set, cleanup_expired
\* and clear
C28_ExactAfterWrites ==
    [][(\E op \in {"set", "cleanup_expired", "clear"} : CacheStep(op)) /\ ~cache_hung'
          => CacheService_get_stats(memory_cache').entries = Len_entries(memory_cache')]_vars


----------------------------------------------------------------------------
(* Claims about a service that has no bucket *)

\* this step is a call for a service without a bucket
UnconfiguredCallStep ==
    /\ now' = now
    /\ last'.at = now
    /\ last'.op \in {"check_rate_limit", "acquire_permit", "consume_token"}
    /\ ~Configured(rate_limiter, last'.service)

\* C29: for a service without a bucket check_rate_limit returns Allowed,
\* acquire_permit returns Ok, consume_token does nothing, and no bucket is
\* created: the set of buckets and every bucket stay as they were.
C29_UnconfiguredServiceIsUnlimited ==
    [][UnconfiguredCallStep =>
          /\ rate_limiter' = rate_limiter
          /\ last'.op = "check_rate_limit" => last'.result = Allowed
          /\ last'.op = "acquire_permit" => last'.value = Some("Ok")]_vars

\* C29 witness: acquire_permit returned Ok for the service without a bucket
\* while the configured bucket was in use
C29_Witness ==
    /\ last.op = "acquire_permit"
    /\ last.service \notin DOMAIN rate_limiter.buckets
    /\ last.value = Some("Ok")
    /\ Bucket.tokens < Bucket.capacity
    /\ Bucket.last_request # None


----------------------------------------------------------------------------
(* The per-client middleware of crmb-streaming, run by concurrent requests: *)
(* a request reads the clock, then waits for the Mutex of the map; the rest *)
(* of the middleware runs under the lock                                    *)

\* the admissions of the history that can still share a span of
\* RequestWindow with a request that reads the clock at t or waits for the lock
RecentAdmissions(admitted, t) ==
    [c \in ClientIps |->
        SelectSeq(admitted[c], LAMBDA at : t - at < RequestWindow + MaxLockWait)]

\* the clock advances, while no request has waited MaxLockWait for the lock
ClientTick ==
    /\ now < MaxClientTime
    /\ \A i \in DOMAIN in_flight :
          in_flight[i] # None => (now + 1) - in_flight[i][1].now <= MaxLockWait
    /\ now' = now + 1
    /\ responses' = [responses EXCEPT !.admitted = RecentAdmissions(@, now + 1)]
    /\ UNCHANGED <<limits, in_flight, coreVars, storeVars, matchVars, slidingVars>>

\* a request of this client enters the middleware: `let now = Instant::now()`
RequestArrives(i, client_ip) ==
    /\ in_flight[i] = None
    /\ in_flight' = [in_flight EXCEPT ![i] = Some([client_ip |-> client_ip, now |-> now])]
    /\ UNCHANGED <<now, limits, responses, coreVars, storeVars, matchVars, slidingVars>>

\* the request gets the lock and is admitted or answered 429; the history
\* keeps the time each admitted request had read, and whether a request got
\* the lock before one that had read the clock earlier
RequestProceeds(i) ==
    /\ in_flight[i] # None
    /\ LET request == in_flight[i][1]
           r == rate_limit_middleware(limits, request.client_ip, request.now)
       IN  /\ limits' = r.limits
           /\ responses' =
                 [answer |-> [client |-> request.client_ip, status |-> r.status,
                              at |-> request.now],
                  admitted |-> IF r.status = 200
                               THEN [responses.admitted EXCEPT
                                        ![request.client_ip] = Append(@, request.now)]
                               ELSE responses.admitted,
                  overtaken |-> responses.overtaken
                                   \/ \E j \in DOMAIN in_flight :
                                         /\ in_flight[j] # None
                                         /\ in_flight[j][1].now < request.now]
    /\ in_flight' = [in_flight EXCEPT ![i] = None]
    /\ UNCHANGED <<now, coreVars, storeVars, matchVars, slidingVars>>

InitClients ==
    /\ now = 0
    /\ NoCore
    /\ NoStore
    /\ store_config = [requests_per_window |-> 1, window_duration_secs |-> 1]
    /\ NoMatch
    /\ NoSliding
    /\ NoClients

NextClients ==
    \/ ClientTick
    \/ \E i \in 1 .. MaxInFlight, client_ip \in ClientIps : RequestArrives(i, client_ip)
    \/ \E i \in 1 .. MaxInFlight : RequestProceeds(i)

SpecClients == InitClients /\ [][NextClients]_vars

----------------------------------------------------------------------------
(* Claims about the per-client middleware *)

\* a step in which the request of slot i was answered
Answered(i) == in_flight[i] # None /\ in_flight'[i] = None

\* the admitted requests of client c that read the clock in [t, t + RequestWindow)
AdmittedInSpan(c, t) ==
    {k \in DOMAIN responses.admitted[c] :
        t <= responses.admitted[c][k] /\ responses.admitted[c][k] < t + RequestWindow}

\* no client was admitted more than MAX_REQUESTS_PER_MINUTE times in a span
\* of RequestWindow
QuotaKept ==
    \A c \in ClientIps, t \in 0 .. MaxClientTime :
        Cardinality(AdmittedInSpan(c, t)) <= MAX_REQUESTS_PER_MINUTE

\* a request answered 429 is not recorded
RejectedNotRecorded ==
    \A i \in 1 .. MaxInFlight :
        (Answered(i) /\ responses'.answer.status = 429) =>
            LET c == in_flight[i][1].client_ip
            IN  /\ c \in DOMAIN limits => Len(limits'[c].requests) <= Len(limits[c].requests)
                /\ c \notin DOMAIN limits => limits'[c].requests = << >>

\* the pruning of the map removes no client that holds a request less than
\* RequestWindow old
PruneKeepsActiveClients ==
    \A c \in DOMAIN limits \ DOMAIN limits' :
        \A k \in DOMAIN limits[c].requests : now - limits[c].requests[k] >= RequestWindow

\* C30: for every interleaving of requests, each client is admitted at most
\* MAX_REQUESTS_PER_MINUTE times in any span of RequestWindow and answered
\* 429 otherwise; a rejected request is not recorded; the pruning of the map
\* never removes a client that holds a request less than RequestWindow old.
C30_PerClientQuota ==
    /\ []QuotaKept
    /\ [][RejectedNotRecorded /\ PruneKeepsActiveClients]_vars

\* the same quota as long as the requests get the lock in the order in which
\* they read the clock
C30_QuotaWhenInOrder == ~responses.overtaken => QuotaKept

\* the two other parts hold for every interleaving
C30_RejectedAndPruned == [][RejectedNotRecorded /\ PruneKeepsActiveClients]_vars

====
